---- MODULE Spec2Model ----
(***************************************************************************)
(* Piecewise validation of a Submitty configuration against its schema:    *)
(* submitty_utils/submitty_schema_validator.py.                            *)
(*                                                                         *)
(* JSON values are tagged records (null, string, array, object); Python's  *)
(* None is the JSON null.  Schema chunks are records with a "type" field   *)
(* interpreted by the Matcher (jsonschema.validate).  One action of the    *)
(* model is one statement of complete_config_validator that can raise:     *)
(* a call of validate_schema or a subscript lookup.                        *)
(***************************************************************************)
EXTENDS Naturals, Sequences, FiniteSets, TLC

\* ------------------------------------------------------------------ JSON

None == [tag |-> "null"]
Str(v) == [tag |-> "str", str |-> v]
Arr(e) == [tag |-> "arr", arr |-> e]
Obj(f) == [tag |-> "obj", obj |-> f]

\* j_.get(key, None) on a dict
Get(j, key) == IF key \in DOMAIN j.obj THEN j.obj[key] ELSE None

\* s_.get(key, None) on a schema mapping
SchemaGet(s, key) == IF key \in DOMAIN s THEN s[key] ELSE None

\* ------------------------------------------------------------- Matcher

\* Does the instance satisfy the schema chunk?  Four schema forms:
\*   enum (a set of allowed values), object (required, properties,
\*   additionalProperties), array (items) and anyOf (a sequence of schemas).
RECURSIVE Conforms(_, _)
Conforms(inst, sch) ==
    CASE sch.type = "enum" -> inst \in sch.enum
      [] sch.type = "object" ->
            /\ inst.tag = "obj"
            /\ sch.required \subseteq DOMAIN inst.obj
            /\ \A k \in DOMAIN inst.obj :
                  IF k \in DOMAIN sch.properties
                  THEN Conforms(inst.obj[k], sch.properties[k])
                  ELSE sch.additionalProperties
      [] sch.type = "array" ->
            /\ inst.tag = "arr"
            /\ \A i \in 1..Len(inst.arr) : Conforms(inst.arr[i], sch.items)
      [] sch.type = "anyOf" ->
            \E i \in 1..Len(sch.anyOf) : Conforms(inst, sch.anyOf[i])

\* jsonschema.validate: returns None, or the ValidationError it raises
validate(instance, schema) ==
    IF Conforms(instance, schema)
    THEN None
    ELSE [tag |-> "ValidationError",
          message |-> [instance |-> instance, validator |-> schema.type]]

\* ------------------------------------------------- SubmittySchemaException

NoException == [exc |-> "none"]

\* As SubmittySchemaException, with the two chunks stored in each other's place
SubmittySchemaException_Swapped(config_json, schema, message, title, schema_error) ==
    IF schema_error = None
    THEN [exc |-> "AttributeError"]
    ELSE [exc |-> "SubmittySchemaException",
          config_json |-> schema,
          schema |-> config_json,
          my_message |-> message,
          title |-> title,
          schema_message |-> schema_error.message]

\* __init__ reads schema_error.message before anything else
SubmittySchemaException(config_json, schema, message, title, schema_error) ==
    IF schema_error = None
    THEN [exc |-> "AttributeError"]
    ELSE [exc |-> "SubmittySchemaException",
          config_json |-> config_json,
          schema |-> schema,
          my_message |-> message,
          title |-> title,
          schema_message |-> schema_error.message]

\* ------------------------------------------------------- validate_schema

\* A line of text given to print, and the text json.dumps gives for a value
Text(str) == [text |-> str]
json_dumps(obj, indent) == [json |-> obj, indent |-> indent]

\* As print_human_readable_error, the dump printed without file=sys.stderr
print_human_readable_error_Stdout(self) ==
    IF self.schema_message # None
    THEN [stderr |-> <<Text(""), Text(self.my_message \o ":"),
                       [str |-> self.schema_message],
                       Text("The portion of your configuration that caused "
                            \o "the error is:")>>,
          stdout |-> <<json_dumps(self.config_json, 4)>>]
    ELSE [stderr |-> <<Text(""), Text(self.my_message \o ":")>>,
          stdout |-> <<>>]

\* lines 23-31: the lines print_human_readable_error writes to each stream
print_human_readable_error(self) ==
    IF self.schema_message # None
    THEN [stderr |-> <<Text(""), Text(self.my_message \o ":"),
                       [str |-> self.schema_message],
                       Text("The portion of your configuration that caused "
                            \o "the error is:"),
                       json_dumps(self.config_json, 4)>>,
          stdout |-> <<>>]
    ELSE [stderr |-> <<Text(""), Text(self.my_message \o ":")>>,
          stdout |-> <<>>]

\* The result of one call: the exception raised (or NoException), the
\* Matcher invocations made (at most one) and the lines printed to stdout.
Result(raised, matched, printed) ==
    [raised |-> raised, matched |-> matched, printed |-> printed]

\* lines 117-122: the chunk of the document and of the schema under key
Resolve(j_, s_, key) ==
    IF key # ""
    THEN [chunk |-> IF j_ # None THEN Get(j_, key) ELSE j_,
          schema |-> IF s_ # None THEN SchemaGet(s_, key) ELSE s_]
    ELSE [chunk |-> j_, schema |-> s_]

\* lines 124-131: no specification for key in the schema
SchemaDefect(j_, s_, key, descriptive_title) ==
    Result(SubmittySchemaException(
               j_, s_,
               <<"ERROR: There is no specification for " \o key
                     \o " in the schema.",
                 " Please add a specification.">>,
               descriptive_title, None),
           <<>>, <<>>)

\* As SkipAbsent, but an absent chunk is an error
SkipAbsent_Fails(descriptive_title, key, warnFlag) ==
    Result([exc |-> "SubmittySchemaException",
            config_json |-> None,
            schema |-> None,
            my_message |-> "ERROR: " \o descriptive_title \o " is missing",
            title |-> descriptive_title,
            schema_message |-> None],
           <<>>, <<>>)

\* lines 132-135: nothing in the document under key
SkipAbsent(descriptive_title, key, warnFlag) ==
    Result(NoException, <<>>,
           IF warnFlag
           THEN <<"WARNING: could not identify " \o descriptive_title
                    \o " (" \o key \o ")">>
           ELSE <<>>)

\* As Match, but a violation is swallowed instead of raised
Match_Swallows(my_json_chunk, my_schema, descriptive_title) ==
    Result(NoException,
           <<[instance |-> my_json_chunk, schema |-> my_schema,
              ok |-> validate(my_json_chunk, my_schema) = None]>>,
           <<>>)

\* lines 136-145: the Matcher is invoked on the resolved pair
Match(my_json_chunk, my_schema, descriptive_title) ==
    LET e == validate(my_json_chunk, my_schema)
        invocation(ok) == <<[instance |-> my_json_chunk,
                             schema |-> my_schema, ok |-> ok]>>
    IN  IF e = None
        THEN Result(NoException, invocation(TRUE), <<>>)
        ELSE Result(SubmittySchemaException(
                        my_json_chunk, my_schema,
                        "ERROR: " \o descriptive_title
                            \o " was not properly formatted",
                        descriptive_title, e),
                    invocation(FALSE), <<>>)

\* As validate_schema, but with warn set a violation is only a warning
validate_schema_WarnOnly(j_, s_, key, prefix, required, warnFlag) ==
    LET descriptive_title == prefix \o " " \o key
        my == Resolve(j_, s_, key)
    IN  IF my.schema = None
        THEN SchemaDefect(j_, s_, key, descriptive_title)
        ELSE IF my.chunk = None
        THEN SkipAbsent(descriptive_title, key, warnFlag)
        ELSE IF warnFlag
        THEN Match_Swallows(my.chunk, my.schema, descriptive_title)
        ELSE Match(my.chunk, my.schema, descriptive_title)

\* lines 109-145
validate_schema(j_, s_, key, prefix, required, warnFlag) ==
    LET descriptive_title == prefix \o " " \o key
        my == Resolve(j_, s_, key)
    IN  IF my.schema = None
        THEN SchemaDefect(j_, s_, key, descriptive_title)
        ELSE IF my.chunk = None
        THEN SkipAbsent(descriptive_title, key, warnFlag)
        ELSE Match(my.chunk, my.schema, descriptive_title)

\* ------------------------------------------------------- the fixed key lists

GlobalKeys ==
    <<"autograding", "autograding_method", "container_options",
      "resource_limits">>

\* As TestcaseKeys, with type listed before points
TestcaseKeys_Reordered ==
    <<"dispatcher_actions", "actions", "type", "points", "pre_commands",
      "single_port_per_container", "use_router", "title", "hidden",
      "extra_credit", "input_generation_commands", "executable_name",
      "testcase_label">>

\* lines 79-82
TestcaseKeys ==
    <<"dispatcher_actions", "actions", "points", "type", "pre_commands",
      "single_port_per_container", "use_router", "title", "hidden",
      "extra_credit", "input_generation_commands", "executable_name",
      "testcase_label">>

Range(seq) == {seq[n] : n \in 1..Len(seq)}

\* ------------------------------------------------------------- the inputs

\* Scalar values of the documents: x is the value the schemas below allow,
\* y a value they do not; a and s are validation entries that only one of the
\* two validation schemas allows.
X == Str("x")
Y == Str("y")

Leaf == [type |-> "enum", enum |-> {X}]

ContainerSchema == [type |-> "enum", enum |-> {X}]
AbstractValidationSchema == [type |-> "enum", enum |-> {X, Str("a")}]
ValidatorDefinitionsSchema == [type |-> "enum", enum |-> {X, Str("s")}]

\* definitions.testcase.properties, without the keys in `missing`
TestcaseProperties(missing) ==
    [k \in (Range(TestcaseKeys) \cup
            {"containers", "solution_containers", "validation"}) \ missing |->
        CASE k = "type" -> [type |-> "enum", enum |-> {Str("Compilation")}]
          [] k \in {"containers", "solution_containers"} ->
                [type |-> "array", items |-> ContainerSchema]
          [] k = "validation" ->
                [type |-> "array", items |-> AbstractValidationSchema]
          [] OTHER -> Leaf]

TestcaseSchema(missing) ==
    [type |-> "object", required |-> {},
     properties |-> TestcaseProperties(missing),
     additionalProperties |-> FALSE]

SubmissionLimitSchema ==
    [type |-> "object", required |-> {"max_submissions"},
     properties |-> [max_submissions |-> Leaf],
     additionalProperties |-> TRUE]

FileCheckSchema ==
    [type |-> "object", required |-> {"type"},
     properties |-> [type |-> [type |-> "enum", enum |-> {Str("FileCheck")}]],
     additionalProperties |-> TRUE]

\* The complete schema document, without the keys in `missing` under
\* properties and under definitions.testcase.properties.
CompleteSchema(missing) ==
    [type |-> "object", required |-> {"testcases"},
     properties |->
        [k \in (Range(GlobalKeys) \cup {"testcases"}) \ missing |->
            IF k = "testcases"
            THEN [type |-> "array",
                  items |-> [type |-> "anyOf",
                             anyOf |-> <<TestcaseSchema(missing),
                                         SubmissionLimitSchema,
                                         FileCheckSchema>>]]
            ELSE Leaf],
     additionalProperties |-> FALSE,
     definitions |->
        [testcase |-> TestcaseSchema(missing),
         submission_limit |-> SubmissionLimitSchema,
         filecheck |-> FileCheckSchema,
         container |-> ContainerSchema,
         abstract_validation_object |-> AbstractValidationSchema,
         validator_definitions |-> ValidatorDefinitionsSchema]]

\* The schemas tried: the complete one, and two with a schema defect (a key
\* of a fixed key list without a specification).
Schemas ==
    {CompleteSchema({}), CompleteSchema({"resource_limits"}),
     CompleteSchema({"points"})}

Absent == [tag |-> "absent"]
Empty == [k \in {} |-> None]
Opt(key, v) == IF v = Absent THEN Empty ELSE key :> v

\* A testcase entry with the given optional members
Entry(type, points, containers, solution_containers, validation) ==
    Obj(Opt("type", type) @@ Opt("points", points)
        @@ Opt("containers", containers)
        @@ Opt("solution_containers", solution_containers)
        @@ Opt("validation", validation))

Compilation == Str("Compilation")

SubmissionLimitEntry == Obj("max_submissions" :> X)
FileCheckEntry == Obj("type" :> Str("FileCheck"))
BothEntry == Obj(("max_submissions" :> X) @@ ("type" :> Str("FileCheck")))

\* Regular entries: one that conforms; one whose points and whose second
\* container do not; one without containers; one without validation; one
\* with a validation entry that only the abstract schema allows; one with a
\* second validation entry that only the validator definitions allow; one
\* whose points is null.
RegularEntries ==
    {Entry(Compilation, X, Arr(<<X>>), Arr(<<>>), Arr(<<X>>)),
     Entry(Compilation, Y, Arr(<<X, Y>>), Arr(<<>>), Arr(<<>>)),
     Entry(Compilation, Absent, Absent, Arr(<<>>), Arr(<<>>)),
     Entry(Compilation, X, Arr(<<>>), Arr(<<X>>), Absent),
     Entry(Absent, X, Arr(<<>>), Arr(<<X>>), Arr(<<Str("a")>>)),
     Entry(Compilation, X, Arr(<<>>), Arr(<<>>), Arr(<<X, Str("s")>>)),
     Entry(Compilation, None, Arr(<<>>), Arr(<<>>), Arr(<<>>))}

\* A testcase entry is one of these, or null, or an entry that one or both
\* of the extra schemas allow.
Entries ==
    {None, SubmissionLimitEntry, FileCheckEntry, BothEntry} \cup RegularEntries

MaxTestcases == 2

RECURSIVE SeqsUpTo(_, _)
SeqsUpTo(S, n) ==
    IF n = 0 THEN {<<>>}
    ELSE LET shorter == SeqsUpTo(S, n - 1)
         IN  shorter \cup {Append(q, e) : q \in shorter, e \in S}

\* The global part of a configuration: autograding and resource_limits vary
\* (the other two global keys are absent), and one global part has a
\* top-level key the schema does not know.
GlobalParts ==
    {Empty,
     "autograding" :> X,
     ("autograding" :> X) @@ ("resource_limits" :> Y),
     ("autograding" :> Y) @@ ("resource_limits" :> Y),
     ("autograding" :> X) @@ ("bogus" :> X)}

Configs ==
    {Obj(g @@ ("testcases" :> Arr(ts))) :
        g \in GlobalParts, ts \in SeqsUpTo(Entries, MaxTestcases)}
    \cup {Obj(g) : g \in GlobalParts}

MaxCalls == 2

\* -------------------------------------------------------------- the state

VARIABLES
    config_json,    \* the configuration document (j_ of the driver)
    schema,         \* the schema document (s_ of the driver)
    warn,           \* the warn argument of the current call
    pc,             \* the statement the driver is at
    idx,            \* position in the inner for loop the driver is in
    t_i,            \* position of t in testcases
    success,
    testcase_num,
    t_name,
    validator_num,
    raised,         \* the exception the current call ended with
    raised_at,      \* the statement that raised it
    stderr,         \* the lines the caller's rendering of raised wrote to stderr
    stdout,         \* lines printed by the current call
    matched,        \* Matcher invocations of the current call, in order
    labels,         \* values given to t_name by the current call, in order
    calls,          \* number of calls started
    prev            \* outcome of the previous call

vars == <<config_json, schema, warn, pc, idx, t_i, success, testcase_num,
          t_name, validator_num, raised, raised_at, stderr, stdout, matched,
          labels, calls, prev>>

inputs == <<config_json, schema>>

\* the driver's locals, lines 43-57
s_prop == schema.properties
testcases == config_json.obj["testcases"].arr
t_s == schema.definitions.testcase
p_s == schema.definitions.testcase.properties
sub_limit_schema == schema.definitions.submission_limit
filecheck_schema == schema.definitions.filecheck
c_schema == schema.definitions.container
abs_v_schema == schema.definitions.abstract_validation_object

\* As spec_v_schema, with the schema chunk of line 56
spec_v_schema_Copied == schema.definitions.abstract_validation_object

\* line 57
spec_v_schema == schema.definitions.validator_definitions

t == testcases[t_i]

NoCall == [warn |-> FALSE, raised |-> NoException, stdout |-> <<>>,
           matched |-> <<>>, labels |-> <<>>, valid |-> FALSE]

Init ==
    /\ config_json \in Configs
    /\ schema \in Schemas
    /\ warn = FALSE
    /\ pc = "idle"
    /\ idx = 0
    /\ t_i = 0
    /\ success = FALSE
    /\ testcase_num = 0
    /\ t_name = ""
    /\ validator_num = 0
    /\ raised = NoException
    /\ raised_at = ""
    /\ stderr = <<>>
    /\ stdout = <<>>
    /\ matched = <<>>
    /\ labels = <<>>
    /\ calls = 0
    /\ prev = NoCall

\* ------------------------------------------------------------ the driver

\* The Matcher invocations of a call of validate_schema, labelled with the
\* call site (the statement, the testcase position and the key or position).
Logged(site, key, pos, r) ==
    [n \in 1..Len(r.matched) |->
        [site |-> site, t |-> t_i, key |-> key, pos |-> pos,
         instance |-> r.matched[n].instance, schema |-> r.matched[n].schema,
         ok |-> r.matched[n].ok]]

\* An exception leaves complete_config_validator: the call is over.
Raise(e) ==
    /\ raised' = e
    /\ raised_at' = pc
    /\ pc' = "done"
    /\ UNCHANGED <<idx, t_i, success, testcase_num, t_name, validator_num>>

\* As ForTestcase, but the call returns when the loop is over
ForTestcase_Returns(n) ==
    IF n <= Len(testcases)
    THEN /\ pc' = "classify"
         /\ t_i' = n
         /\ idx' = 1
         /\ success' = FALSE
    ELSE /\ pc' = "done"
         /\ UNCHANGED <<t_i, idx, success>>

\* for t in testcases (line 61), entered at position n; lines 65-66
ForTestcase(n) ==
    IF n <= Len(testcases)
    THEN /\ pc' = "classify"
         /\ t_i' = n
         /\ idx' = 1
         /\ success' = FALSE
    ELSE /\ pc' = "whole"
         /\ UNCHANGED <<t_i, idx, success>>

\* complete_config_validator is called (line 34); a call that is over is
\* remembered in prev.
Call(w) ==
    /\ pc \in {"idle", "done"}
    /\ calls < MaxCalls
    /\ calls' = calls + 1
    /\ warn' = w
    /\ prev' = IF pc = "done"
               THEN [warn |-> warn, raised |-> raised, stdout |-> stdout,
                     matched |-> matched, labels |-> labels, valid |-> TRUE]
               ELSE prev
    /\ pc' = "global"
    /\ idx' = 1
    /\ t_i' = 0
    /\ success' = FALSE
    /\ testcase_num' = 0
    /\ t_name' = ""
    /\ validator_num' = 0
    /\ raised' = NoException
    /\ raised_at' = ""
    /\ stderr' = <<>>
    /\ stdout' = <<>>
    /\ matched' = <<>>
    /\ labels' = <<>>
    /\ UNCHANGED inputs

\* lines 45-47
GlobalKey ==
    /\ pc = "global"
    /\ LET key == GlobalKeys[idx]
           r == validate_schema(config_json, s_prop, key, "global", TRUE, warn)
       IN  /\ stdout' = stdout \o r.printed
           /\ matched' = matched \o Logged("global", key, idx, r)
           /\ IF r.raised # NoException
              THEN Raise(r.raised)
              ELSE /\ UNCHANGED <<raised, raised_at>>
                   /\ idx' = IF idx < Len(GlobalKeys) THEN idx + 1 ELSE 1
                   /\ pc' = IF idx < Len(GlobalKeys) THEN "global"
                            ELSE "testcases"
                   /\ UNCHANGED <<t_i, success, testcase_num, t_name,
                                  validator_num>>
    /\ UNCHANGED <<inputs, warn, stderr, calls, prev, labels>>

\* As FirstTestcaseNum, but the index goes on from the previous call
FirstTestcaseNum_Carried == 1 + Len(prev.labels)

\* line 59
FirstTestcaseNum == 1

\* lines 50-61
Testcases ==
    /\ pc = "testcases"
    /\ IF "testcases" \notin DOMAIN config_json.obj
       THEN Raise([exc |-> "KeyError", key |-> "testcases"])
       ELSE /\ testcase_num' = FirstTestcaseNum
            /\ ForTestcase(1)
            /\ UNCHANGED <<raised, raised_at, t_name, validator_num>>
    /\ UNCHANGED <<inputs, warn, stderr, stdout, matched, calls, prev, labels>>

ExtraSchemas == <<"submission_limit", "filecheck">>

\* As Caught, without the except clause
Caught_Nothing(e) == FALSE

\* lines 71-72: except SubmittySchemaException: pass
Caught(e) == e.exc = "SubmittySchemaException"

\* As Classified, without the continue
Classified_Never(succ) == FALSE

\* lines 73-74: if success: continue
Classified(succ) == succ

\* lines 66-77: one pass of the loop over the two extra schemas; after the
\* second pass, the continue or the regular-testcase steps
Classify ==
    /\ pc = "classify"
    /\ LET extra_schema == schema.definitions[ExtraSchemas[idx]]
           r == validate_schema(t, extra_schema, "", "", FALSE, warn)
           num == IF r.raised = NoException THEN testcase_num + 1
                  ELSE testcase_num
           succ == IF r.raised = NoException THEN TRUE ELSE success
       IN  /\ stdout' = stdout \o r.printed
           /\ matched' = matched
                \o Logged("classify", ExtraSchemas[idx], idx, r)
           /\ labels' = IF (r.raised = NoException \/ Caught(r.raised))
                            /\ idx = Len(ExtraSchemas) /\ ~Classified(succ)
                         THEN Append(labels, "testcase_" \o ToString(num))
                         ELSE labels
           /\ IF r.raised # NoException /\ ~Caught(r.raised)
              THEN Raise(r.raised)
              ELSE /\ UNCHANGED <<raised, raised_at>>
                   /\ testcase_num' = num
                   /\ validator_num' = validator_num
                   /\ IF idx < Len(ExtraSchemas)
                      THEN /\ idx' = idx + 1
                           /\ success' = succ
                           /\ UNCHANGED <<pc, t_i, t_name>>
                      ELSE IF Classified(succ)
                      THEN /\ ForTestcase(t_i + 1)
                           /\ UNCHANGED t_name
                      ELSE /\ t_name' = "testcase_" \o ToString(num)
                           /\ pc' = "keys"
                           /\ idx' = 1
                           /\ success' = succ
                           /\ UNCHANGED t_i
    /\ UNCHANGED <<inputs, warn, stderr, calls, prev>>

\* lines 79-84
TestcaseKey ==
    /\ pc = "keys"
    /\ LET key == TestcaseKeys[idx]
           r == validate_schema(t, p_s, key, t_name, TRUE, warn)
       IN  /\ stdout' = stdout \o r.printed
           /\ matched' = matched \o Logged("keys", key, idx, r)
           /\ IF r.raised # NoException
              THEN Raise(r.raised)
              ELSE /\ UNCHANGED <<raised, raised_at>>
                   /\ idx' = IF idx < Len(TestcaseKeys) THEN idx + 1 ELSE 1
                   /\ pc' = IF idx < Len(TestcaseKeys) THEN "keys"
                            ELSE "get_containers"
                   /\ UNCHANGED <<t_i, success, testcase_num, t_name,
                                  validator_num>>
    /\ UNCHANGED <<inputs, warn, stderr, calls, prev, labels>>

\* A subscript t[key] followed by the head of the for loop over the list:
\* KeyError when the key is absent, the loop body at position 1 when the
\* list has an entry, the statement after the loop when it has none.
Subscript(key, body, after) ==
    /\ IF key \notin DOMAIN t.obj
       THEN Raise([exc |-> "KeyError", key |-> key])
       ELSE /\ UNCHANGED <<raised, raised_at>>
            /\ pc' = IF Len(t.obj[key].arr) > 0 THEN body ELSE after
            /\ idx' = 1
            /\ UNCHANGED <<t_i, success, t_name>>
    /\ UNCHANGED <<inputs, warn, stderr, stdout, matched, calls, prev, labels>>

\* lines 86-88
GetContainers ==
    /\ pc = "get_containers"
    /\ Subscript("containers", "containers", "get_solution_containers")
    /\ UNCHANGED <<testcase_num, validator_num>>

\* One pass of a loop "for c in <list>: validate_schema(c, c_schema, ...)"
ContainerLoop(key, site, after) ==
    LET list == t.obj[key].arr
        r == validate_schema(list[idx], c_schema, "", t_name, TRUE, warn)
    IN  /\ stdout' = stdout \o r.printed
        /\ matched' = matched \o Logged(site, "", idx, r)
        /\ IF r.raised # NoException
           THEN Raise(r.raised)
           ELSE /\ UNCHANGED <<raised, raised_at>>
                /\ idx' = IF idx < Len(list) THEN idx + 1 ELSE 1
                /\ pc' = IF idx < Len(list) THEN site ELSE after
                /\ UNCHANGED <<t_i, success, testcase_num, t_name,
                               validator_num>>
        /\ UNCHANGED <<inputs, warn, stderr, calls, prev, labels>>

\* lines 88-89
Container ==
    /\ pc = "containers"
    /\ ContainerLoop("containers", "containers", "get_solution_containers")

\* lines 91-92
GetSolutionContainers ==
    /\ pc = "get_solution_containers"
    /\ Subscript("solution_containers", "solution_containers",
                 "get_validation")
    /\ UNCHANGED <<testcase_num, validator_num>>

\* lines 92-93
SolutionContainer ==
    /\ pc = "solution_containers"
    /\ ContainerLoop("solution_containers", "solution_containers",
                     "get_validation")

\* lines 95-98, and line 102 when the list is empty
GetValidation ==
    /\ pc = "get_validation"
    /\ Subscript("validation", "validation_abs", "whole_testcase")
    /\ IF "validation" \notin DOMAIN t.obj
       THEN TRUE
       ELSE /\ validator_num' = 0
            /\ testcase_num' = IF Len(t.obj["validation"].arr) > 0
                               THEN testcase_num ELSE testcase_num + 1

validators == t.obj["validation"].arr

\* line 99
ValidationAbs ==
    /\ pc = "validation_abs"
    /\ LET v == validators[validator_num + 1]
           r == validate_schema(v, abs_v_schema, "", t_name, TRUE, warn)
       IN  /\ stdout' = stdout \o r.printed
           /\ matched' = matched
                \o Logged("validation_abs", "", validator_num + 1, r)
           /\ IF r.raised # NoException
              THEN Raise(r.raised)
              ELSE /\ UNCHANGED <<raised, raised_at>>
                   /\ pc' = "validation_spec"
                   /\ UNCHANGED <<idx, t_i, success, testcase_num, t_name,
                                  validator_num>>
    /\ UNCHANGED <<inputs, warn, stderr, calls, prev, labels>>

\* lines 100-102
ValidationSpec ==
    /\ pc = "validation_spec"
    /\ LET v == validators[validator_num + 1]
           r == validate_schema(v, spec_v_schema, "", t_name, TRUE, warn)
           more == validator_num + 1 < Len(validators)
       IN  /\ stdout' = stdout \o r.printed
           /\ matched' = matched
                \o Logged("validation_spec", "", validator_num + 1, r)
           /\ IF r.raised # NoException
              THEN Raise(r.raised)
              ELSE /\ UNCHANGED <<raised, raised_at>>
                   /\ validator_num' = validator_num + 1
                   /\ pc' = IF more THEN "validation_abs"
                            ELSE "whole_testcase"
                   /\ testcase_num' = IF more THEN testcase_num
                                      ELSE testcase_num + 1
                   /\ UNCHANGED <<idx, t_i, success, t_name>>
    /\ UNCHANGED <<inputs, warn, stderr, calls, prev, labels>>

\* line 104, then line 61
WholeTestcase ==
    /\ pc = "whole_testcase"
    /\ LET r == validate_schema(t, t_s, "", t_name, TRUE, warn)
       IN  /\ stdout' = stdout \o r.printed
           /\ matched' = matched \o Logged("whole_testcase", "", 0, r)
           /\ IF r.raised # NoException
              THEN Raise(r.raised)
              ELSE /\ UNCHANGED <<raised, raised_at>>
                   /\ ForTestcase(t_i + 1)
                   /\ UNCHANGED <<testcase_num, t_name, validator_num>>
    /\ UNCHANGED <<inputs, warn, stderr, calls, prev, labels>>

\* As WholeConfig, without the call of validate_schema
WholeConfig_Skipped ==
    /\ pc = "whole"
    /\ pc' = "done"
    /\ UNCHANGED <<inputs, warn, stderr, idx, t_i, success, testcase_num, t_name,
                   validator_num, raised, raised_at, stdout, matched, calls,
                   prev, labels>>

\* line 106, then the normal return
WholeConfig ==
    /\ pc = "whole"
    /\ LET r == validate_schema(config_json, schema, "", "Your config json",
                                TRUE, warn)
       IN  /\ stdout' = stdout \o r.printed
           /\ matched' = matched \o Logged("whole", "", 0, r)
           /\ IF r.raised # NoException
              THEN Raise(r.raised)
              ELSE /\ UNCHANGED <<raised, raised_at>>
                   /\ pc' = "done"
                   /\ UNCHANGED <<idx, t_i, success, testcase_num, t_name,
                                  validator_num>>
    /\ UNCHANGED <<inputs, warn, stderr, calls, prev, labels>>

\* The caller has caught the report and renders it (lines 23-31)
Render ==
    /\ pc = "done"
    /\ raised.exc = "SubmittySchemaException"
    /\ stderr = <<>>
    /\ stderr' = print_human_readable_error(raised).stderr
    /\ stdout' = stdout \o print_human_readable_error(raised).stdout
    /\ UNCHANGED <<inputs, warn, pc, idx, t_i, success, testcase_num, t_name,
                   validator_num, raised, raised_at, matched, labels, calls,
                   prev>>

Next ==
    \/ \E w \in BOOLEAN : Call(w)
    \/ GlobalKey
    \/ Testcases
    \/ Classify
    \/ TestcaseKey
    \/ GetContainers
    \/ Container
    \/ GetSolutionContainers
    \/ SolutionContainer
    \/ GetValidation
    \/ ValidationAbs
    \/ ValidationSpec
    \/ WholeTestcase
    \/ WholeConfig
    \/ Render

Spec == Init /\ [][Next]_vars

\* ------------------------------------------------------------ properties

Done == pc = "done"
Returned == Done /\ raised = NoException
Reported == raised.exc = "SubmittySchemaException"
Last(seq) == seq[Len(seq)]
HasTestcases == "testcases" \in DOMAIN config_json.obj

\* The place of a Matcher invocation in the traversal: the global keys in
\* their listed order, then the testcase entries in document order (within
\* an entry: the two classification attempts, the per-testcase keys, the
\* containers, the solution containers, the validation entries, the whole
\* entry), then the whole document.
Rank(e) ==
    CASE e.site = "global" -> e.pos
      [] e.site = "whole" -> 100 * (Len(testcases) + 1)
      [] e.site = "classify" -> 100 * e.t + e.pos
      [] e.site = "keys" -> 100 * e.t + 2 + e.pos
      [] e.site = "containers" -> 100 * e.t + 20 + e.pos
      [] e.site = "solution_containers" -> 100 * e.t + 40 + e.pos
      [] e.site = "validation_abs" -> 100 * e.t + 60 + 2 * e.pos
      [] e.site = "validation_spec" -> 100 * e.t + 61 + 2 * e.pos
      [] e.site = "whole_testcase" -> 100 * e.t + 99

\* The Matcher rejects the value of global key k
GlobalRejected(k) ==
    /\ k \in DOMAIN config_json.obj
    /\ k \in DOMAIN s_prop
    /\ config_json.obj[k] # None
    /\ ~Conforms(config_json.obj[k], s_prop[k])

\* The Matcher rejects the value of the per-testcase key k of entry e
KeyRejected(e, k) ==
    /\ e # None
    /\ k \in DOMAIN e.obj
    /\ k \in DOMAIN p_s
    /\ e.obj[k] # None
    /\ ~Conforms(e.obj[k], p_s[k])

\* C1: fail-fast in traversal order.  A call raises at most one report: a
\* Matcher rejection outside the classification attempts is the last Matcher
\* invocation of the call and the call ends with its report; the invocations
\* are made in traversal order; and when the Matcher rejects the value of a
\* global key (the earlier global keys passing), the call ends with the
\* report for that key and no check of a testcase is made.
C1_FailFast ==
    /\ raised # NoException => Done
    /\ \A n \in 1..Len(matched) :
          (~matched[n].ok /\ matched[n].site # "classify")
             => /\ n = Len(matched)
                /\ Reported
                /\ raised.config_json = matched[n].instance
                /\ raised.schema = matched[n].schema
    /\ Reported => /\ matched # <<>>
                   /\ ~Last(matched).ok
                   /\ Last(matched).site # "classify"
    /\ \A n \in 1..(Len(matched) - 1) :
          Rank(matched[n]) < Rank(matched[n + 1])
    /\ \A n \in 1..Len(GlobalKeys) :
          ( /\ Done
            /\ GlobalRejected(GlobalKeys[n])
            /\ \A m \in 1..(n - 1) : /\ ~GlobalRejected(GlobalKeys[m])
                                     /\ GlobalKeys[m] \in DOMAIN s_prop )
             => /\ Reported
                /\ raised.title = "global " \o GlobalKeys[n]
                /\ raised.config_json = config_json.obj[GlobalKeys[n]]
                /\ \A k \in 1..Len(matched) : matched[k].site = "global"

\* A call that ended with the report for a global key, on a configuration
\* that has a testcase whose points the Matcher rejects as well.
C1_Witness ==
    /\ Done
    /\ Reported
    /\ raised.title = "global resource_limits"
    /\ HasTestcases
    /\ \E n \in 1..Len(testcases) : KeyRejected(testcases[n], "points")

\* No piecewise step of the call failed: no lookup or schema defect raised,
\* and the Matcher accepted every chunk handed to it before the whole-document
\* step (classification attempts aside).
PiecewisePassed ==
    /\ raised.exc \notin {"KeyError", "AttributeError"}
    /\ \A n \in 1..Len(matched) :
          matched[n].site \notin {"classify", "whole"} => matched[n].ok

C3_AlwaysWhole ==
    Done => /\ matched # <<>>
            /\ Last(matched).site = "whole"

\* C3 as amended: a call in which no earlier statement raises performs the
\* whole-document validation against the whole schema, and then it is the
\* last Matcher invocation of the call; a call in which an earlier statement
\* raises ends without it.
C3_WholeLast ==
    /\ \A n \in 1..Len(matched) :
          matched[n].site = "whole"
             => /\ n = Len(matched)
                /\ matched[n].instance = config_json
                /\ matched[n].schema = schema
    /\ Done => ( (raised_at \in {"", "whole"})
                    <=> (matched # <<>> /\ Last(matched).site = "whole") )

\* A call that returned normally after Matcher invocations on chunks, the
\* last invocation being the whole-document one.
C3_Witness ==
    /\ Returned
    /\ Len(matched) > 1
    /\ Last(matched).site = "whole"
    /\ \E n \in 1..Len(matched) : matched[n].site = "keys"

\* C4: schema defect.  A call of validate_schema with a key that has no
\* entry in the schema mapping fails with a SubmittySchemaException.
C4_SchemaDefectReport ==
    ( /\ Done
      /\ \/ raised_at = "global" /\ GlobalKeys[idx] \notin DOMAIN s_prop
         \/ raised_at = "keys" /\ TestcaseKeys[idx] \notin DOMAIN p_s )
       => Reported

\* validate_schema is about to be called with a key that the schema
\* specifies and the document chunk lacks
AbsentKeyCall ==
    \/ /\ pc = "global"
       /\ GlobalKeys[idx] \in DOMAIN s_prop
       /\ GlobalKeys[idx] \notin DOMAIN config_json.obj
    \/ /\ pc = "keys"
       /\ TestcaseKeys[idx] \in DOMAIN p_s
       /\ TestcaseKeys[idx] \notin DOMAIN t.obj

\* C5: absent optional chunk.  A call of validate_schema with a key whose
\* schema chunk exists and whose document chunk is absent returns normally
\* and does not invoke the Matcher; it prints nothing when warn is false and
\* one warning line when warn is true.
C5_AbsentChunk ==
    [][AbsentKeyCall =>
          /\ raised' = NoException
          /\ pc' # "done"
          /\ matched' = matched
          /\ Len(stdout') = Len(stdout) + (IF warn THEN 1 ELSE 0)
          /\ ~warn => stdout' = <<>>]_vars

\* A call with warn set that returned normally after warnings for absent
\* global keys and absent keys of a testcase.
C5_Witness ==
    /\ Returned
    /\ warn
    /\ Len(stdout) > Len(GlobalKeys)
    /\ \E n \in 1..Len(matched) : matched[n].site = "keys"

\* C6: the warn flag does not affect the outcome.  Two calls on the same
\* configuration and schema, one with warn and one without, end the same way
\* (both return normally or both raise the same exception, a report having
\* the same offending chunk, schema chunk, message and title) after the same
\* sequence of Matcher invocations; the call without warn prints nothing.
C6_WarnIrrelevant ==
    (Done /\ prev.valid /\ prev.warn # warn)
       => /\ raised = prev.raised
          /\ matched = prev.matched
          /\ ~warn => stdout = <<>>
          /\ ~prev.warn => prev.stdout = <<>>

\* Two calls that differ in warn and in what they printed, both ending with
\* a report after Matcher invocations in a testcase.
C6_Witness ==
    /\ Done
    /\ prev.valid
    /\ prev.warn # warn
    /\ stdout # prev.stdout
    /\ Reported
    /\ raised_at \notin {"global", "whole"}

\* The Matcher accepted entry n against one of the two extra schemas
Accepted(n) ==
    \E k \in 1..Len(matched) :
        /\ matched[k].site = "classify"
        /\ matched[k].t = n
        /\ matched[k].ok

RegularSites ==
    {"keys", "containers", "solution_containers", "validation_abs",
     "validation_spec", "whole_testcase"}

\* C7: a testcase entry that the Matcher accepts against the submission_limit
\* or the filecheck schema is skipped: none of the regular-testcase steps is
\* performed on it, and the loop goes on with the next entry.
C7_ClassifiedSkipped ==
    /\ \A k \in 1..Len(matched) :
          matched[k].site \in RegularSites => ~Accepted(matched[k].t)
    /\ (pc \notin {"idle", "global", "testcases"} /\ Accepted(t_i))
          => /\ pc \in {"classify", "whole", "done"}
             /\ raised_at \in {"", "whole"}
             /\ pc \in {"whole", "done"} => t_i = Len(testcases)

\* The first entry was accepted by the Matcher against an extra schema and
\* the regular-testcase steps were performed on the second.
C7_Witness ==
    /\ Accepted(1)
    /\ \E k \in 1..Len(matched) :
          matched[k].site = "keys" /\ matched[k].t = 2

\* C8: first-match-wins.  No filecheck attempt is made on an entry that the
\* Matcher accepted against the submission_limit schema, and the entry is
\* counted once: the testcase index is at most one more than the number of
\* entries reached.
C8_FirstMatchWins ==
    /\ \A k \in 1..Len(matched) :
          (matched[k].site = "classify" /\ matched[k].key = "filecheck")
             => ~\E j \in 1..Len(matched) :
                    /\ matched[j].site = "classify"
                    /\ matched[j].t = matched[k].t
                    /\ matched[j].key = "submission_limit"
                    /\ matched[j].ok
    /\ testcase_num <= t_i + 1

\* C9: the absence of containers, solution_containers or validation from a
\* regular testcase entry does not end the call with an error of its own.
C9_AbsentListSkipped ==
    ~( /\ raised.exc = "KeyError"
       /\ raised.key \in {"containers", "solution_containers", "validation"} )

\* The chunk pair that the statement which raised resolves
ResolvedAt(site) ==
    CASE site = "global" ->
            [chunk |-> config_json.obj[GlobalKeys[idx]],
             schema |-> s_prop[GlobalKeys[idx]]]
      [] site = "keys" ->
            [chunk |-> t.obj[TestcaseKeys[idx]],
             schema |-> p_s[TestcaseKeys[idx]]]
      [] site = "containers" ->
            [chunk |-> t.obj["containers"].arr[idx], schema |-> c_schema]
      [] site = "solution_containers" ->
            [chunk |-> t.obj["solution_containers"].arr[idx],
             schema |-> c_schema]
      [] site = "validation_abs" ->
            [chunk |-> validators[validator_num + 1],
             schema |-> abs_v_schema]
      [] site = "validation_spec" ->
            [chunk |-> validators[validator_num + 1],
             schema |-> spec_v_schema]
      [] site = "whole_testcase" -> [chunk |-> t, schema |-> t_s]
      [] site = "whole" -> [chunk |-> config_json, schema |-> schema]

\* C10: a report carries the chunk pair that was handed to the Matcher and
\* the Matcher's detail: its config_json is the document sub-value under the
\* key (the document itself for an empty key), its schema the schema
\* sub-value, and its schema_message the message of the Matcher's error.
C10_ReportChunks ==
    Reported =>
        /\ raised.config_json = ResolvedAt(raised_at).chunk
        /\ raised.schema = ResolvedAt(raised_at).schema
        /\ Last(matched).instance = raised.config_json
        /\ Last(matched).schema = raised.schema
        /\ ~Conforms(raised.config_json, raised.schema)
        /\ raised.schema_message
              = validate(raised.config_json, raised.schema).message

\* A call that ended with the report for a per-testcase key
C10_Witness ==
    /\ Reported
    /\ raised_at = "keys"
    /\ raised.config_json = t.obj[TestcaseKeys[idx]]
    /\ raised.config_json # t

\* C11: idempotence.  A call that follows a call on the same configuration
\* and schema ends the same way (the same normal return or the same
\* exception), after the same sequence of Matcher invocations and the same
\* testcase labels; with the same warn it also prints the same lines.
C11_Idempotent ==
    (Done /\ prev.valid)
       => /\ raised = prev.raised
          /\ matched = prev.matched
          /\ labels = prev.labels
          /\ prev.warn = warn => stdout = prev.stdout

\* Two calls with the same warn that both gave labels to two regular
\* testcases and ended with a report.
C11_Witness ==
    /\ Done
    /\ prev.valid
    /\ prev.warn = warn
    /\ Len(labels) = 2
    /\ labels = prev.labels
    /\ Reported

\* C12: the testcase index starts at 1 and advances by one per testcase
\* entry, so that a report raised by a regular-testcase step on the k-th
\* entry has a title that starts with testcase_k.
C12_IndexLabels ==
    (Reported /\ raised_at \in RegularSites)
       => /\ t_name = "testcase_" \o ToString(t_i)
          /\ raised.title
                = "testcase_" \o ToString(t_i) \o " "
                    \o (IF raised_at = "keys" THEN TestcaseKeys[idx] ELSE "")

\* The statements of the regular-testcase steps, and the states in which
\* the entry at position t_i is in them or has left them with an exception
RegularPcs ==
    RegularSites
        \cup {"get_containers", "get_solution_containers", "get_validation"}

InRegular == pc \in RegularPcs \/ (Done /\ raised_at \in RegularPcs)

\* The order of the per-testcase keys as the documentation lists it
ListedKeys ==
    <<"dispatcher_actions", "actions", "points", "type", "pre_commands",
      "single_port_per_container", "use_router", "title", "hidden",
      "extra_credit", "input_generation_commands", "executable_name",
      "testcase_label">>

ListSteps(e, key, site) ==
    IF key \in DOMAIN e.obj
    THEN [n \in 1..Len(e.obj[key].arr) |->
            [site |-> site, pos |-> n, instance |-> e.obj[key].arr[n],
             schema |-> c_schema]]
    ELSE <<>>

ValidationSteps(e) ==
    IF "validation" \in DOMAIN e.obj
    THEN [n \in 1..(2 * Len(e.obj["validation"].arr)) |->
            [site |-> IF n % 2 = 1 THEN "validation_abs"
                      ELSE "validation_spec",
             pos |-> (n + 1) \div 2,
             instance |-> e.obj["validation"].arr[(n + 1) \div 2],
             schema |-> IF n % 2 = 1 THEN abs_v_schema ELSE spec_v_schema]]
    ELSE <<>>

\* The chunks of a regular testcase entry e with their schema chunks, in the
\* order of steps b to f: the listed keys, the containers, the solution
\* containers, the validation entries (each against both schemas), the
\* whole entry.  A key that is absent has the chunk null.
Steps(e) ==
    [n \in 1..Len(ListedKeys) |->
        [site |-> "keys", pos |-> n, instance |-> Get(e, ListedKeys[n]),
         schema |-> SchemaGet(p_s, ListedKeys[n])]]
    \o ListSteps(e, "containers", "containers")
    \o ListSteps(e, "solution_containers", "solution_containers")
    \o ValidationSteps(e)
    \o <<[site |-> "whole_testcase", pos |-> 0, instance |-> e,
          schema |-> t_s]>>

\* A step whose chunk and schema chunk both exist goes to the Matcher
Checked(c) == c.instance # None /\ c.schema # None
StepRejected(c) == Checked(c) /\ ~Conforms(c.instance, c.schema)

\* The Matcher invocations of the regular steps on the entry at position n
RegularLog(n) ==
    SelectSeq(matched, LAMBDA m : m.t = n /\ m.site \in RegularSites)

\* The position of the report within its list
RaisedPos ==
    CASE raised_at \in {"validation_abs", "validation_spec"}
            -> validator_num + 1
      [] raised_at = "whole_testcase" -> 0
      [] OTHER -> idx

\* C13: within one regular testcase entry the checks run in a fixed order:
\* the 13 per-testcase keys in their listed order, then the containers
\* entries, the solution_containers entries, the validation entries, the
\* whole entry; when the Matcher rejects several of these chunks the report
\* is the one for the earliest of them in this order.
C13_FixedOrder ==
    InRegular =>
        LET steps == Steps(t)
            checked == SelectSeq(steps, Checked)
            log == RegularLog(t_i)
            rejected == {n \in 1..Len(steps) : StepRejected(steps[n])}
        IN  /\ Len(log) <= Len(checked)
            /\ \A n \in 1..Len(log) :
                  /\ log[n].site = checked[n].site
                  /\ log[n].pos = checked[n].pos
                  /\ log[n].instance = checked[n].instance
                  /\ log[n].schema = checked[n].schema
                  /\ log[n].site = "keys" => log[n].key = ListedKeys[log[n].pos]
            /\ (Reported /\ raised_at \in RegularSites) =>
                  \E first \in rejected :
                      /\ \A m \in rejected : first <= m
                      /\ steps[first].site = raised_at
                      /\ steps[first].pos = RaisedPos
                      /\ steps[first].instance = raised.config_json
                      /\ steps[first].schema = raised.schema

\* A report for a rejected key of an entry that also has a rejected container
C13_Witness ==
    /\ Reported
    /\ raised_at = "keys"
    /\ \E n \in 1..Len(Steps(t)) :
          Steps(t)[n].site = "containers" /\ StepRejected(Steps(t)[n])

\* C14: every entry of a regular testcase's validation list is checked
\* against the abstract_validation_object schema and then against the
\* validator_definitions schema: the run gets past an entry only if the
\* Matcher accepts it against both, and an entry that one accepts and the
\* other rejects yields a report whose schema chunk is the rejecting schema.
C14_BothValidationSchemas ==
    /\ \A n \in 1..Len(matched) :
          /\ matched[n].site = "validation_abs"
                => /\ matched[n].schema
                        = schema.definitions.abstract_validation_object
                   /\ (matched[n].ok /\ n < Len(matched))
                        => /\ matched[n + 1].site = "validation_spec"
                           /\ matched[n + 1].t = matched[n].t
                           /\ matched[n + 1].pos = matched[n].pos
          /\ matched[n].site = "validation_spec"
                => /\ matched[n].schema
                        = schema.definitions.validator_definitions
                   /\ n > 1
                   /\ matched[n - 1].site = "validation_abs"
                   /\ matched[n - 1].ok
                   /\ matched[n - 1].instance = matched[n].instance
    /\ (InRegular /\ "validation" \in DOMAIN t.obj)
          => LET vs == t.obj["validation"].arr
                 past == CASE pc = "whole_testcase" -> Len(vs)
                           [] pc \in {"validation_abs", "validation_spec"}
                                -> validator_num
                           [] raised_at \in {"validation_abs",
                                             "validation_spec"}
                                -> validator_num
                           [] raised_at = "whole_testcase" -> Len(vs)
                           [] OTHER -> 0
             IN  /\ \A k \in 1..past :
                       /\ Conforms(vs[k],
                              schema.definitions.abstract_validation_object)
                       /\ Conforms(vs[k],
                              schema.definitions.validator_definitions)
                 /\ (Done /\ raised_at = "validation_abs")
                       => /\ Reported
                          /\ raised.config_json = vs[validator_num + 1]
                          /\ raised.schema
                               = schema.definitions.abstract_validation_object
                          /\ ~Conforms(vs[validator_num + 1], raised.schema)
                 /\ (Done /\ raised_at = "validation_spec")
                       => /\ Reported
                          /\ raised.config_json = vs[validator_num + 1]
                          /\ raised.schema
                               = schema.definitions.validator_definitions
                          /\ ~Conforms(vs[validator_num + 1], raised.schema)

\* A validation entry that the abstract_validation_object schema accepts
\* and the validator_definitions schema rejects
C14_Witness ==
    /\ Reported
    /\ raised_at = "validation_spec"
    /\ Conforms(raised.config_json,
                schema.definitions.abstract_validation_object)
    /\ raised.schema = schema.definitions.validator_definitions

\* Key is present in the object j with a value, null included, that the
\* Matcher rejects against the schema chunk of that key in s
PresentRejected(j, s, key) ==
    /\ key \in DOMAIN j.obj
    /\ key \in DOMAIN s
    /\ ~Conforms(j.obj[key], s[key])

\* C15: whenever a key of the fixed global or per-testcase key list is
\* present in its parent chunk with a value (JSON null included) that the
\* Matcher rejects against the key's schema chunk, and all earlier checks
\* pass, the run fails with a report whose offending chunk is that value and
\* whose title is the prefix followed by the key.
C15_PreciseLocalization ==
    /\ \A n \in 1..Len(GlobalKeys) :
          (/\ pc # "idle"
           /\ pc = "global" => idx > n
           /\ PresentRejected(config_json, s_prop, GlobalKeys[n])
           /\ \A m \in 1..(n - 1) :
                 /\ GlobalKeys[m] \in DOMAIN s_prop
                 /\ ~PresentRejected(config_json, s_prop, GlobalKeys[m]))
              => /\ Reported
                 /\ raised_at = "global"
                 /\ idx = n
                 /\ raised.config_json = config_json.obj[GlobalKeys[n]]
                 /\ raised.title = "global " \o GlobalKeys[n]
    /\ InRegular =>
          \A n \in 1..Len(TestcaseKeys) :
              (/\ pc = "keys" => idx > n
               /\ PresentRejected(t, p_s, TestcaseKeys[n])
               /\ \A m \in 1..(n - 1) :
                     /\ TestcaseKeys[m] \in DOMAIN p_s
                     /\ ~PresentRejected(t, p_s, TestcaseKeys[m]))
                  => /\ Reported
                     /\ raised_at = "keys"
                     /\ idx = n
                     /\ raised.config_json = t.obj[TestcaseKeys[n]]
                     /\ raised.title = t_name \o " " \o TestcaseKeys[n]

\* The Matcher rejects the entry e against both extra schemas
RejectedByBoth(e) ==
    /\ e # None
    /\ ~Conforms(e, schema.definitions.submission_limit)
    /\ ~Conforms(e, schema.definitions.filecheck)

\* The run has left the testcase entry at position n without an exception
PastEntry(n) ==
    /\ pc \notin {"idle", "global", "testcases"}
    /\ raised_at \notin {"global", "testcases"}
    /\ HasTestcases
    /\ n \in 1..Len(testcases)
    /\ \/ t_i > n
       \/ pc = "whole"
       \/ Done /\ raised_at \in {"", "whole"}

\* All regular-testcase steps have been performed on the entry at position n
AllSteps(n) ==
    LET checked == SelectSeq(Steps(testcases[n]), Checked)
        log == RegularLog(n)
    IN  /\ Len(log) = Len(checked)
        /\ \A k \in 1..Len(log) :
              /\ log[k].site = checked[k].site
              /\ log[k].pos = checked[k].pos
              /\ log[k].instance = checked[k].instance
              /\ log[k].ok

\* A classification attempt on an entry that both extra schemas reject
\* leaves the index alone and raises nothing; the second one goes on to the
\* first per-testcase key under the title of the index
C16_Attempt ==
    (pc = "classify" /\ RejectedByBoth(t))
       => /\ testcase_num' = testcase_num
          /\ raised' = NoException
          /\ t_i' = t_i
          /\ pc' \in {"classify", "keys"}
          /\ pc' = "keys"
                => /\ idx' = 1
                   /\ t_name' = "testcase_" \o ToString(testcase_num)

C16_Received ==
    /\ raised_at # "classify"
    /\ HasTestcases =>
          \A n \in 1..Len(testcases) :
              (RejectedByBoth(testcases[n]) /\ PastEntry(n)) => AllSteps(n)

\* C16: for a testcase entry that the Matcher rejects against both the
\* submission_limit and the filecheck schema, neither rejection reaches the
\* caller or ends the run, the attempts do not advance the testcase index,
\* and the entry receives the regular-testcase steps b to f.
C16_FallThrough == []C16_Received /\ [][C16_Attempt]_vars

\* A run that returns after the regular steps on an entry that both extra
\* schemas reject
C16_Witness ==
    /\ Returned
    /\ HasTestcases
    /\ \E n \in 1..Len(testcases) :
          /\ RejectedByBoth(testcases[n])
          /\ Len(RegularLog(n)) > 2
          /\ AllSteps(n)

\* A string without its leading and trailing blanks
RECURSIVE lstrip(_)
lstrip(str) ==
    IF Len(str) > 0 /\ Head(str) = " " THEN lstrip(Tail(str)) ELSE str

RECURSIVE rstrip(_)
rstrip(str) ==
    IF Len(str) > 0 /\ SubSeq(str, Len(str), Len(str)) = " "
    THEN rstrip(SubSeq(str, 1, Len(str) - 1))
    ELSE str

strip(str) == rstrip(lstrip(str))

\* The prefix and the key of the call of validate_schema that raised
ReportPrefix ==
    CASE raised_at = "global" -> "global"
      [] raised_at = "whole" -> "Your config json"
      [] OTHER -> t_name

ReportKey ==
    CASE raised_at = "global" -> GlobalKeys[idx]
      [] raised_at = "keys" -> TestcaseKeys[idx]
      [] OTHER -> ""

\* C17: the title of every report is the string "{prefix} {key}" with
\* leading and trailing whitespace removed, and the summary message is that
\* title followed by " was not properly formatted"; for a whole-chunk check
\* (empty key) the title equals the prefix, with no trailing blank.
C17_TrimmedTitle ==
    Reported
       => /\ raised.title = strip(ReportPrefix \o " " \o ReportKey)
          /\ raised.my_message
                = raised.title \o " was not properly formatted"
          /\ ReportKey = "" => raised.title = ReportPrefix

\* The step in which the caller renders the report
Rendering == pc = "done" /\ stderr = <<>> /\ stderr' # <<>>

StartsWith(str, head) ==
    Len(str) >= Len(head) /\ SubSeq(str, 1, Len(head)) = head

\* C18: rendering a report writes, in this order, the summary message, the
\* Matcher's detail message if there is one, and a pretty-printed dump of
\* the offending chunk; every line goes to the error stream and nothing is
\* written to the normal output stream.
C18_Step ==
    Rendering
       => /\ stdout' = stdout
          /\ \E i, j, k \in 1..Len(stderr') :
                /\ i < j /\ j < k
                /\ "text" \in DOMAIN stderr'[i]
                /\ StartsWith(stderr'[i].text, raised.my_message)
                /\ stderr'[j] = [str |-> raised.schema_message]
                /\ stderr'[k] = json_dumps(raised.config_json, 4)
                /\ \A n \in 1..Len(stderr') :
                      /\ stderr'[n] = stderr'[i] => n = i
                      /\ stderr'[n] = stderr'[j] => n = j
                      /\ stderr'[n] = stderr'[k] => n = k

C18_RenderOrder == [][C18_Step]_vars

\* A rendered report
C18_Witness ==
    /\ Reported
    /\ Len(stderr) > 2
    /\ stderr[Len(stderr)] = json_dumps(raised.config_json, 4)
    /\ raised.schema_message # None

====
